---- MODULE Spec2Model ----
(***************************************************************************)
(* Model of the HubSpot MCP servers of the repository.  The main part is   *)
(* the email-forwarding server (src/unnamed/part_001):                     *)
(* the send_customer_email tool sends a mail (the trigger), then polls the *)
(* HubSpot thread listing for the thread the mail created, and posts an    *)
(* internal comment on it.  One behaviour is one tool call; every action   *)
(* is one synchronous stretch of sendEmail between two awaits.  The ticket *)
(* servers (src/index.js, src/unnamed/part_002) and the form server        *)
(* (src/index.js) follow, each with a specification of its own.            *)
(***************************************************************************)
EXTENDS Integers, Sequences, FiniteSets, TLC

(* ---------------- bounds of the model ---------------- *)
MaxAttempts == 3
MaxThreads == 3
NetLatency == 1

(* ---------------- program constants ---------------- *)
DefaultPollAttempts == 5
DefaultPollIntervalMs == 3000
DefaultLookbackMs == 600000
PageLimit == 20
SubjectMaxLen == 60

(* ---------------- JavaScript values ---------------- *)
\* process.env.X that is not set
UNSET == "<unset>"
\* the null that findThreadIdByInbox returns instead of an id
Null == "<null>"

NaN == [nan |-> TRUE, n |-> 0]
Finite(x) == [nan |-> FALSE, n |-> x]

\* a JSON value of a thread field: undefined, a number or a string
Undef == [t |-> "undef", n |-> 0, s |-> ""]
Num(x) == [t |-> "num", n |-> x, s |-> ""]
Str(x) == [t |-> "str", n |-> 0, s |-> x]

Truthy(v) ==
  CASE v.t = "num" -> v.n # 0
    [] v.t = "str" -> v.s # ""
    [] OTHER -> FALSE

\* a || b
OrElse(a, b) == IF Truthy(a) THEN a ELSE b

\* Number(s) on the numerals the model uses; anything else is NaN
NumeralRange == (-1 .. (MaxAttempts + 1)) \cup {100, 200, 300}
Number(s) ==
  IF s = "" THEN Finite(0)
  ELSE IF \E k \in NumeralRange : ToString(k) = s
       THEN Finite(CHOOSE k \in NumeralRange : ToString(k) = s)
       ELSE NaN

\* Date.parse(s) on the ISO dates the model uses; anything else is NaN
DateParse(s) ==
  CASE s = "1970-01-01T00:00:00.200Z" -> Finite(200)
    [] s = "1970-01-01T00:00:00.300Z" -> Finite(300)
    [] OTHER -> NaN

\* a < b of JavaScript numbers: false as soon as one side is NaN
JsLess(a, b) == ~a.nan /\ ~b.nan /\ a.n < b.n
JsMinus(a, k) == IF a.nan THEN NaN ELSE Finite(a.n - k)

(* ---------------- strings as sequences of characters ---------------- *)
ToLowerChar(c) ==
  CASE c = "B" -> "b"
    [] c = "I" -> "i"
    [] c = "L" -> "l"
    [] c = "N" -> "n"
    [] c = "G" -> "g"
    [] c = "O" -> "o"
    [] OTHER -> c

toLowerCase(str) == [i \in 1..Len(str) |-> ToLowerChar(str[i])]

StartsAt(str, sub, i) ==
  /\ i + Len(sub) - 1 <= Len(str)
  /\ \A j \in 1..Len(sub) : str[i + j - 1] = sub[j]

RECURSIVE IncludesFrom(_, _, _)
IncludesFrom(str, sub, i) ==
  IF i + Len(sub) - 1 > Len(str) THEN FALSE
  ELSE IF StartsAt(str, sub, i) THEN TRUE
  ELSE IncludesFrom(str, sub, i + 1)

\* str.includes(sub)
includes(str, sub) == IncludesFrom(str, sub, 1)

IsSpace(c) == c \in {" ", "\n"}

RECURSIVE TrimLeft(_)
TrimLeft(str) ==
  IF str # <<>> /\ IsSpace(Head(str)) THEN TrimLeft(Tail(str)) ELSE str

RECURSIVE TrimRight(_)
TrimRight(str) ==
  IF str # <<>> /\ IsSpace(str[Len(str)])
  THEN TrimRight(SubSeq(str, 1, Len(str) - 1))
  ELSE str

\* String(x).trim()
trim(str) == TrimRight(TrimLeft(str))

RECURSIVE FirstLine(_)
\* str.split('\n')[0]
FirstLine(str) ==
  IF str = <<>> \/ Head(str) = "\n" THEN <<>>
  ELSE <<Head(str)>> \o FirstLine(Tail(str))

\* str.substring(0, k)
Substring0(str, k) == SubSeq(str, 1, IF Len(str) < k THEN Len(str) ELSE k)

(* ---------------- thread ranking ---------------- *)
toTimestamp(value) ==
  CASE value.t = "num" -> value.n
    [] value.t = "str" ->
         LET asNumber == Number(value.s)
             parsed == DateParse(value.s)
         IN IF ~asNumber.nan THEN asNumber.n
            ELSE IF parsed.nan THEN 0 ELSE parsed.n
    [] OTHER -> 0

\* variant: only latestMessageTimestamp is looked at
Recency_LatestOnly(th) == toTimestamp(th.latestMessageTimestamp)

\* the key the comparator of pickMostRecentThread computes for one thread
Recency(th) ==
  toTimestamp(OrElse(th.latestMessageTimestamp, OrElse(th.updatedAt, th.createdAt)))

\* variant: of two threads with the same timestamp the later one of the page wins
RECURSIVE InsertByRecency_TiesFirst(_, _)
InsertByRecency_TiesFirst(sorted, x) ==
  IF sorted = <<>> THEN <<x>>
  ELSE IF Recency(x) - Recency(Head(sorted)) >= 0
       THEN <<x>> \o sorted
       ELSE <<Head(sorted)>> \o InsertByRecency_TiesFirst(Tail(sorted), x)

\* insertion of x behind every element the comparator does not put after it
RECURSIVE InsertByRecency(_, _)
InsertByRecency(sorted, x) ==
  IF sorted = <<>> THEN <<x>>
  ELSE IF Recency(x) - Recency(Head(sorted)) > 0
       THEN <<x>> \o sorted
       ELSE <<Head(sorted)>> \o InsertByRecency(Tail(sorted), x)

\* [...threads].sort((a, b) => bTs - aTs): a stable sort, newest first
RECURSIVE SortByRecency(_)
SortByRecency(ths) ==
  IF ths = <<>> THEN <<>>
  ELSE InsertByRecency(SortByRecency(SubSeq(ths, 1, Len(ths) - 1)), ths[Len(ths)])

NoThread == [id |-> Null, subject |-> [isString |-> FALSE, chars |-> <<>>],
             latestMessageTimestamp |-> Undef, updatedAt |-> Undef, createdAt |-> Undef]

pickMostRecentThread(ths) ==
  IF Len(ths) = 0 THEN NoThread ELSE SortByRecency(ths)[1]

SubjectMatches(th, normalizedSubject) ==
  LET threadSubject == IF th.subject.isString THEN toLowerCase(th.subject.chars) ELSE <<>>
  IN includes(threadSubject, normalizedSubject)

\* threads.filter(...): the threads whose subject contains the hint, in page order
RECURSIVE FilterBySubject(_, _)
FilterBySubject(ths, normalizedSubject) ==
  IF ths = <<>> THEN <<>>
  ELSE IF SubjectMatches(Head(ths), normalizedSubject)
       THEN <<Head(ths)>> \o FilterBySubject(Tail(ths), normalizedSubject)
       ELSE FilterBySubject(Tail(ths), normalizedSubject)

\* variant: ranks the whole page, the subject is not looked at
pickThreadBySubject_Unfiltered(ths, subject) == pickMostRecentThread(ths)

\* variant: no fallback to the whole page when no subject matches
pickThreadBySubject_NoFallback(ths, subject) ==
  IF subject = <<>> THEN pickMostRecentThread(ths)
  ELSE pickMostRecentThread(FilterBySubject(ths, toLowerCase(subject)))

pickThreadBySubject(ths, subject) ==
  IF subject = <<>> THEN pickMostRecentThread(ths)
  ELSE LET normalizedSubject == toLowerCase(subject)
           subjectMatches == FilterBySubject(ths, normalizedSubject)
       IN pickMostRecentThread(IF Len(subjectMatches) # 0 THEN subjectMatches ELSE ths)

\* variant: thread?.id without the fallback to null
ThreadIdOf_Raw(th) == th.id

\* thread?.id || null
ThreadIdOf(th) == IF th.id # Null /\ th.id # "" THEN th.id ELSE Null

(* ---------------- inputs of one tool call ---------------- *)
S_BillingIssue == <<"B", "i", "l", "l", "i", "n", "g", " ", "i", "s", "s", "u", "e">>
S_Other == <<"O", "t", "h", "e", "r">>
S_PaddedBILLING == <<" ", "B", "I", "L", "L", "I", "N", "G", " ">>
S_Nonexistent == <<"N", "o", "n", "e">>
S_Content == <<"O", "t", "h", "e", "r", "\n", "x">>
S_Blank == <<" ", "\n">>
S_Email == <<"a", "@", "b">>

SubjectOf(chars) == [isString |-> TRUE, chars |-> chars]
NoSubject == [isString |-> FALSE, chars |-> <<>>]

\* the threads the listing endpoint may return (data.results of
\* GET /conversations/v3/conversations/threads)
ThreadA == [id |-> "A", subject |-> SubjectOf(S_BillingIssue),
            latestMessageTimestamp |-> Str("100"), updatedAt |-> Undef, createdAt |-> Undef]
ThreadB == [id |-> "B", subject |-> SubjectOf(S_BillingIssue),
            latestMessageTimestamp |-> Num(200), updatedAt |-> Undef, createdAt |-> Undef]
ThreadC == [id |-> "C", subject |-> SubjectOf(S_Other),
            latestMessageTimestamp |-> Num(300), updatedAt |-> Undef, createdAt |-> Undef]
ThreadD == [id |-> "", subject |-> SubjectOf(S_BillingIssue),
            latestMessageTimestamp |-> Undef, updatedAt |-> Str("1970-01-01T00:00:00.300Z"),
            createdAt |-> Num(100)]
ThreadE == [id |-> "E", subject |-> NoSubject,
            latestMessageTimestamp |-> Num(0), updatedAt |-> Str("soon"),
            createdAt |-> Num(300)]
ThreadCatalog == {ThreadA, ThreadB, ThreadC, ThreadD, ThreadE}

\* the pages the endpoint may answer with: distinct threads, any order
Listings ==
  {l \in UNION {[1..k -> ThreadCatalog] : k \in 0..MaxThreads} :
     \A i, j \in DOMAIN l : i # j => l[i] # l[j]}

Inputs ==
  [content : {<<>>, S_Blank, S_Content},
   contactEmail : {<<>>, S_Email},
   subject : {<<>>, S_PaddedBILLING, S_Nonexistent}]

AttemptSettings == {UNSET, "many"} \cup {ToString(k) : k \in -1..MaxAttempts}

\* the poll timing is either left to the defaults or set as a pair
Environments ==
  {e \in [HUBSPOT_BCC_EMAIL : BOOLEAN,
          HUBSPOT_INBOX_ID : BOOLEAN,
          HUBSPOT_ACCESS_TOKEN : BOOLEAN,
          HUBSPOT_THREAD_POLL_ATTEMPTS : AttemptSettings,
          HUBSPOT_THREAD_POLL_INTERVAL_MS : {UNSET, "1"},
          HUBSPOT_THREAD_LOOKBACK_MS : {UNSET, "2"}] :
     (e.HUBSPOT_THREAD_POLL_INTERVAL_MS = UNSET) <=> (e.HUBSPOT_THREAD_LOOKBACK_MS = UNSET)}

StartTime == 1000000

(* ---------------- state ---------------- *)
VARIABLES
  pc,            \* where the tool call stands
  input,         \* request.params.arguments
  env,           \* process.env
  now,           \* Date.now()
  emailSentAt,
  finalSubject,
  pollAttempts,
  pollIntervalMs,
  latestMessageTimestampAfter,
  attempt,
  threadId,
  thread,        \* the thread findThreadIdByInbox picked from the last answer
  threads,       \* the array data.results after the pick (both until the next query)
  results,       \* data.results as the endpoint returned it
  sendMailCalls, \* calls of transporter.sendMail
  queries,       \* the listing queries issued, oldest first
  sleeps,        \* inter-attempt timers started
  comments,      \* thread ids postInternalComment was called with
  thrown,        \* message of the error sendEmail threw, "" if none
  failedAt,      \* the step that threw
  responses,     \* results the tool handler returned to the caller
  shutdown       \* the host has closed the transport of the server

\* the variables of the send_customer_email call
emailVars == <<pc, input, env, now, emailSentAt, finalSubject, pollAttempts, pollIntervalMs,
               latestMessageTimestampAfter, attempt, threadId, thread, threads, results,
               sendMailCalls, queries, sleeps, comments, thrown, failedAt, responses, shutdown>>

\* a create_hubspot_ticket call (src/index.js and src/unnamed/part_002)
VARIABLES
  kPc,           \* where the call stands
  kInput,        \* request.params.arguments
  kToken,        \* HUBSPOT_ACCESS_TOKEN is set
  kLookup,       \* what findContactByEmail came back with
  kContactId,
  kTicketId,     \* ticket.id
  kConversation, \* what createConversationThread has so far
  kRequests,     \* the paths hubspotRequest fetched, oldest first
  kFailedAt,     \* the step that threw
  kResponses     \* results the tool handler returned to the caller

ticketVars == <<kPc, kInput, kToken, kLookup, kContactId, kTicketId, kConversation, kRequests,
                kFailedAt, kResponses>>

\* a submit_support_ticket_form call (src/index.js)
VARIABLES
  fPc,           \* where the call stands
  fInput,        \* request.params.arguments
  fRequests,     \* the submissions fetch sent, oldest first
  fFailedAt,     \* the step that threw
  fResponses     \* results the tool handler returned to the caller

formVars == <<fPc, fInput, fRequests, fFailedAt, fResponses>>

vars == <<emailVars, ticketVars, formVars>>

NoConversation == [threadId |-> Null, messageId |-> Null]

\* no create_hubspot_ticket call is under way
TicketIdle ==
  /\ kPc = "idle"
  /\ kInput = [subject |-> <<>>, content |-> <<>>, contactEmail |-> <<>>, priority |-> UNSET]
  /\ kToken = FALSE
  /\ kLookup = "none"
  /\ kContactId = Null
  /\ kTicketId = Null
  /\ kConversation = NoConversation
  /\ kRequests = <<>>
  /\ kFailedAt = "none"
  /\ kResponses = <<>>

\* no submit_support_ticket_form call is under way
FormIdle ==
  /\ fPc = "idle"
  /\ fInput = <<>>
  /\ fRequests = <<>>
  /\ fFailedAt = "none"
  /\ fResponses = <<>>

UnableMsg == "Unable to locate HubSpot thread for internal comment"

\* the locals and the history of a call that has not started
EmailStart ==
  /\ pc = "start"
  /\ now = StartTime
  /\ emailSentAt = 0
  /\ finalSubject = <<>>
  /\ pollAttempts = Finite(0)
  /\ pollIntervalMs = Finite(0)
  /\ latestMessageTimestampAfter = Finite(0)
  /\ attempt = 0
  /\ threadId = Null
  /\ thread = NoThread
  /\ threads = <<>>
  /\ results = <<>>
  /\ sendMailCalls = 0
  /\ queries = <<>>
  /\ sleeps = 0
  /\ comments = <<>>
  /\ thrown = ""
  /\ failedAt = "none"
  /\ responses = <<>>
  /\ shutdown = FALSE

Init ==
  /\ input \in Inputs
  /\ env \in Environments
  /\ EmailStart
  /\ TicketIdle
  /\ FormIdle

\* no send_customer_email call is under way
EmailIdle ==
  /\ input = [content |-> <<>>, contactEmail |-> <<>>, subject |-> <<>>]
  /\ env = [HUBSPOT_BCC_EMAIL |-> FALSE, HUBSPOT_INBOX_ID |-> FALSE, HUBSPOT_ACCESS_TOKEN |-> FALSE,
            HUBSPOT_THREAD_POLL_ATTEMPTS |-> UNSET, HUBSPOT_THREAD_POLL_INTERVAL_MS |-> UNSET,
            HUBSPOT_THREAD_LOOKBACK_MS |-> UNSET]
  /\ EmailStart

(* ---------------- the tool handler and sendEmail ---------------- *)
\* variant: the catch block reports the error as a success
ErrorResult_AsSuccess(msg) ==
  [isError |-> FALSE, success |-> TRUE, error |-> msg, hubspotThreadId |-> Null]

ErrorResult(msg) == [isError |-> TRUE, success |-> FALSE, error |-> msg, hubspotThreadId |-> Null]
SuccessResult(tid) == [isError |-> FALSE, success |-> TRUE, error |-> "", hubspotThreadId |-> tid]

\* process.env.X || dflt, then Number(...)
Setting(value, dflt) == IF value = UNSET \/ value = "" THEN Finite(dflt) ELSE Number(value)

\* variant: the access token is not checked before the mail is sent
ValidationError_NoTokenCheck(in, e) ==
  IF trim(in.content) = <<>> THEN "Missing required field: content"
  ELSE IF trim(in.contactEmail) = <<>> THEN "Missing required field: contactEmail"
  ELSE IF ~e.HUBSPOT_BCC_EMAIL THEN "HUBSPOT_BCC_EMAIL not configured"
  ELSE IF ~e.HUBSPOT_INBOX_ID THEN "HUBSPOT_INBOX_ID not configured"
  ELSE ""

\* the first failed check of sendEmail's validation, "" when all pass
ValidationError(in, e) ==
  IF trim(in.content) = <<>> THEN "Missing required field: content"
  ELSE IF trim(in.contactEmail) = <<>> THEN "Missing required field: contactEmail"
  ELSE IF ~e.HUBSPOT_BCC_EMAIL THEN "HUBSPOT_BCC_EMAIL not configured"
  ELSE IF ~e.HUBSPOT_INBOX_ID THEN "HUBSPOT_INBOX_ID not configured"
  ELSE IF ~e.HUBSPOT_ACCESS_TOKEN THEN "HUBSPOT_ACCESS_TOKEN not configured"
  ELSE ""

\* subject || content.split('\n')[0].substring(0, 60)
FinalSubject(in) ==
  LET subject == trim(in.subject)
      content == trim(in.content)
  IN IF subject # <<>> THEN subject ELSE Substring0(FirstLine(content), SubjectMaxLen)

\* variant: the lookback boundary is taken from the clock at each query
ListingQuery_AtQueryTime(after) ==
  [latestMessageTimestampAfter |-> JsMinus(Finite(now), emailSentAt - after.n),
   limit |-> PageLimit]

\* the URLSearchParams of one listing query
ListingQuery(after) == [latestMessageTimestampAfter |-> after, limit |-> PageLimit]

\* variant: attempt <= pollAttempts
LoopContinues_OneMore(att, pa) == ~pa.nan /\ att <= pa.n
\* the condition of the for loop
LoopContinues(att, pa) == JsLess(Finite(att), pa)
\* variant: the loop never breaks
Found_Never(tid) == FALSE
\* if (threadId) break
Found(tid) == tid # Null /\ tid # ""
\* variant: a timer is started after the last attempt too
SleepsBeforeRetry_Always(att, pa) == JsLess(Finite(att), pa)
\* if (attempt < pollAttempts - 1): a timer is started
SleepsBeforeRetry(att, pa) == JsLess(Finite(att), JsMinus(pa, 1))
\* variant: the guard behind the loop is missing
NotLocated_Never(tid) == FALSE
\* if (!threadId) throw
NotLocated(tid) == tid = Null \/ tid = ""

\* an error thrown inside sendEmail: the handler's catch turns it into the result
Throw(msg, step) ==
  /\ thrown' = msg
  /\ failedAt' = step
  /\ responses' = Append(responses, ErrorResult(msg))
  /\ pc' = "done"

\* the code behind the loop: the guard, then postInternalComment is called
AfterLoop(tid) ==
  IF NotLocated(tid)
  THEN Throw(UnableMsg, "locate") /\ UNCHANGED comments
  ELSE /\ comments' = Append(comments, tid)
       /\ pc' = "awaitComment"
       /\ UNCHANGED <<thrown, failedAt, responses>>

\* the loop condition with attempt = att; a listing query is issued if it holds,
\* and the locals of the previous findThreadIdByInbox call (page, picked) are gone
LoopHead(att, pa, after, tid, page, arr, picked) ==
  /\ attempt' = att
  /\ IF LoopContinues(att, pa)
     THEN /\ queries' = Append(queries, ListingQuery(after))
          /\ threads' = <<>>
          /\ results' = <<>>
          /\ thread' = NoThread
          /\ pc' = "awaitList"
          /\ UNCHANGED <<comments, thrown, failedAt, responses>>
     ELSE /\ UNCHANGED queries
          /\ threads' = arr
          /\ results' = page
          /\ thread' = picked
          /\ AfterLoop(tid)

\* the handler runs sendEmail up to its first await: validation, mail composed,
\* transporter.sendMail called
CallTool ==
  /\ pc = "start"
  /\ UNCHANGED <<shutdown, ticketVars, formVars>>
  /\ IF ValidationError(input, env) # ""
     THEN /\ Throw(ValidationError(input, env), "validate")
          /\ UNCHANGED <<emailSentAt, finalSubject, sendMailCalls>>
     ELSE /\ emailSentAt' = now
          /\ finalSubject' = FinalSubject(input)
          /\ sendMailCalls' = sendMailCalls + 1
          /\ pc' = "awaitSend"
          /\ UNCHANGED <<thrown, failedAt, responses>>
  /\ UNCHANGED <<input, env, now, pollAttempts, pollIntervalMs, latestMessageTimestampAfter,
                 attempt, threadId, thread, threads, results, queries, sleeps, comments>>

\* variant: a rejected sendMail is called again
SendMailFail_Retry ==
  /\ pc = "awaitSend"
  /\ UNCHANGED <<shutdown, ticketVars, formVars>>
  /\ now' = now + NetLatency
  /\ sendMailCalls' = sendMailCalls + 1
  /\ UNCHANGED <<pc, input, env, emailSentAt, finalSubject, pollAttempts, pollIntervalMs,
                 latestMessageTimestampAfter, attempt, threadId, thread, threads, results, queries,
                 sleeps, comments, thrown, failedAt, responses>>

\* transporter.sendMail rejects
SendMailFail ==
  /\ pc = "awaitSend"
  /\ UNCHANGED <<shutdown, ticketVars, formVars>>
  /\ now' = now + NetLatency
  /\ Throw("SMTP error", "send")
  /\ UNCHANGED <<input, env, emailSentAt, finalSubject, pollAttempts, pollIntervalMs,
                 latestMessageTimestampAfter, attempt, threadId, thread, threads, results, sendMailCalls,
                 queries, sleeps, comments>>

\* transporter.sendMail resolves: the poll settings are read and the loop is entered
SendMailOk ==
  /\ pc = "awaitSend"
  /\ UNCHANGED <<shutdown, ticketVars, formVars>>
  /\ now' = now + NetLatency
  /\ pollAttempts' = Setting(env.HUBSPOT_THREAD_POLL_ATTEMPTS, DefaultPollAttempts)
  /\ pollIntervalMs' = Setting(env.HUBSPOT_THREAD_POLL_INTERVAL_MS, DefaultPollIntervalMs)
  /\ latestMessageTimestampAfter' =
       JsMinus(Finite(emailSentAt),
               Setting(env.HUBSPOT_THREAD_LOOKBACK_MS, DefaultLookbackMs).n)
  /\ LoopHead(0, pollAttempts', latestMessageTimestampAfter', Null, <<>>, <<>>, NoThread)
  /\ UNCHANGED <<input, env, emailSentAt, finalSubject, threadId, sendMailCalls, sleeps>>

\* variant: pickMostRecentThread sorts the array it is given instead of a copy
ArrayAfterPick_SortedInPlace(page, subject) ==
  IF subject # <<>> /\ Len(FilterBySubject(page, toLowerCase(subject))) # 0
  THEN page
  ELSE SortByRecency(page)

\* data.results once pickThreadBySubject has run: filter builds a new array and
\* [...threads].sort sorts a copy, the array itself is left as it was
ArrayAfterPick(page, subject) == page

\* the listing query is answered with a page of threads
ListOk ==
  /\ pc = "awaitList"
  /\ UNCHANGED <<shutdown, ticketVars, formVars>>
  /\ \E page \in Listings :
       LET picked == pickThreadBySubject(page, finalSubject)
           tid == ThreadIdOf(picked)
       IN /\ threadId' = tid
          /\ IF Found(tid)
             THEN /\ threads' = ArrayAfterPick(page, finalSubject)
                  /\ results' = page
                  /\ thread' = picked
                  /\ UNCHANGED <<attempt, queries, sleeps>>
                  /\ AfterLoop(tid)
             ELSE IF SleepsBeforeRetry(attempt, pollAttempts)
                  THEN /\ threads' = ArrayAfterPick(page, finalSubject)
                       /\ results' = page
                       /\ thread' = picked
                       /\ sleeps' = sleeps + 1
                       /\ pc' = "sleeping"
                       /\ UNCHANGED <<attempt, queries, comments, thrown, failedAt, responses>>
                  ELSE /\ UNCHANGED sleeps
                       /\ LoopHead(attempt + 1, pollAttempts, latestMessageTimestampAfter,
                                   tid, page, ArrayAfterPick(page, finalSubject), picked)
  /\ now' = now + NetLatency
  /\ UNCHANGED <<input, env, emailSentAt, finalSubject, pollAttempts, pollIntervalMs,
                 latestMessageTimestampAfter, sendMailCalls>>

\* variant: a failed listing query is caught in the loop, which goes on while
\* attempts remain
ListFail_KeepsPolling ==
  /\ pc = "awaitList"
  /\ UNCHANGED <<shutdown, ticketVars, formVars>>
  /\ now' = now + NetLatency
  /\ IF SleepsBeforeRetry(attempt, pollAttempts)
     THEN /\ sleeps' = sleeps + 1
          /\ pc' = "sleeping"
          /\ thrown' = "HubSpot API error"
          /\ failedAt' = "list"
          /\ UNCHANGED responses
     ELSE /\ Throw("HubSpot API error", "list")
          /\ UNCHANGED sleeps
  /\ UNCHANGED <<input, env, emailSentAt, finalSubject, pollAttempts, pollIntervalMs,
                 latestMessageTimestampAfter, attempt, threadId, thread, threads, results,
                 sendMailCalls, queries, comments>>

\* the listing query fails (fetch rejects or the status is not ok): hubspotRequest
\* throws, and nothing between it and the handler catches
ListFail ==
  /\ pc = "awaitList"
  /\ UNCHANGED <<shutdown, ticketVars, formVars>>
  /\ now' = now + NetLatency
  /\ Throw("HubSpot API error", "list")
  /\ UNCHANGED <<input, env, emailSentAt, finalSubject, pollAttempts, pollIntervalMs,
                 latestMessageTimestampAfter, attempt, threadId, thread, threads, results, sendMailCalls,
                 queries, sleeps, comments>>

\* the inter-attempt timer fires: attempt += 1 and the loop condition is tested
SleepDone ==
  /\ pc = "sleeping"
  /\ UNCHANGED <<shutdown, ticketVars, formVars>>
  /\ now' = now + pollIntervalMs.n
  /\ LoopHead(attempt + 1, pollAttempts, latestMessageTimestampAfter, threadId,
              results, threads, thread)
  /\ UNCHANGED <<input, env, emailSentAt, finalSubject, pollAttempts, pollIntervalMs,
                 latestMessageTimestampAfter, threadId, sendMailCalls, sleeps>>

\* postInternalComment resolves: sendEmail returns, the handler returns success
CommentOk ==
  /\ pc = "awaitComment"
  /\ UNCHANGED <<shutdown, ticketVars, formVars>>
  /\ now' = now + NetLatency
  /\ responses' = Append(responses, SuccessResult(threadId))
  /\ pc' = "done"
  /\ UNCHANGED <<input, env, emailSentAt, finalSubject, pollAttempts, pollIntervalMs,
                 latestMessageTimestampAfter, attempt, threadId, thread, threads, results, sendMailCalls,
                 queries, sleeps, comments, thrown, failedAt>>

\* variant: a rejected postInternalComment is caught and the call still succeeds
CommentFail_Swallowed ==
  /\ pc = "awaitComment"
  /\ UNCHANGED <<shutdown, ticketVars, formVars>>
  /\ now' = now + NetLatency
  /\ thrown' = "HubSpot API error"
  /\ failedAt' = "comment"
  /\ responses' = Append(responses, SuccessResult(threadId))
  /\ pc' = "done"
  /\ UNCHANGED <<input, env, emailSentAt, finalSubject, pollAttempts, pollIntervalMs,
                 latestMessageTimestampAfter, attempt, threadId, thread, threads, results,
                 sendMailCalls, queries, sleeps, comments>>

\* postInternalComment rejects
CommentFail ==
  /\ pc = "awaitComment"
  /\ UNCHANGED <<shutdown, ticketVars, formVars>>
  /\ now' = now + NetLatency
  /\ Throw("HubSpot API error", "comment")
  /\ UNCHANGED <<input, env, emailSentAt, finalSubject, pollAttempts, pollIntervalMs,
                 latestMessageTimestampAfter, attempt, threadId, thread, threads, results, sendMailCalls,
                 queries, sleeps, comments>>

\* the host shuts down while the call is suspended in an await: the client closes
\* the stdio transport main() connected.  Nothing in the server listens for it: no
\* close handler, no signal handler, no abort signal on the timer or the requests.
HostShutdown ==
  /\ pc \in {"awaitSend", "awaitList", "sleeping", "awaitComment"}
  /\ ~shutdown
  /\ shutdown' = TRUE
  /\ UNCHANGED <<pc, input, env, now, emailSentAt, finalSubject, pollAttempts,
                 pollIntervalMs, latestMessageTimestampAfter, attempt, threadId, thread,
                 threads, results, sendMailCalls, queries, sleeps, comments, thrown, failedAt,
                 responses>>
  /\ UNCHANGED <<ticketVars, formVars>>

Next ==
  \/ CallTool
  \/ SendMailFail
  \/ SendMailOk
  \/ ListOk
  \/ ListFail
  \/ SleepDone
  \/ CommentOk
  \/ CommentFail
  \/ HostShutdown

Spec == Init /\ [][Next]_vars

\* the calls followed to their end: one subject hint or none, content given or not
PolledInputs == {in \in Inputs : in.contactEmail = S_Email /\ in.content # S_Blank
                                   /\ in.subject = S_PaddedBILLING}
FairInit ==
  /\ Init
  /\ input \in PolledInputs
  /\ env.HUBSPOT_BCC_EMAIL /\ env.HUBSPOT_INBOX_ID
  /\ env.HUBSPOT_THREAD_POLL_INTERVAL_MS = UNSET
  /\ env.HUBSPOT_THREAD_POLL_ATTEMPTS # UNSET

\* the timer fires, every pending request is answered
FairSpec == FairInit /\ [][Next]_vars /\ WF_vars(Next)

(* ---------------- the ticket server with conversations (src/index.js) ---------------- *)
TokenMsg == "HUBSPOT_ACCESS_TOKEN environment variable is not set"
ApiErrorMsg == "HubSpot API error"
NoContactIdMsg == "Contact created but no id returned by HubSpot."
NoTicketIdMsg == "Ticket created but no id returned by HubSpot."

ContactsSearchPath == "/crm/v3/objects/contacts/search"
ContactsPath == "/crm/v3/objects/contacts"
TicketsPath == "/crm/v3/objects/tickets"
InboxesPath == "/conversations/v3/conversations/inboxes"
ChannelAccountsPath == "/conversations/v3/conversations/channel-accounts"
ThreadsPath == "/conversations/v3/conversations/threads"
MessagesPath == "/conversations/v3/conversations/threads/{id}/messages"

ConversationPaths == {InboxesPath, ChannelAccountsPath, ThreadsPath, MessagesPath}

\* String(priority).toUpperCase() on the priorities the model uses
ToUpperCase(p) ==
  CASE p = "high" -> "HIGH"
    [] p = "urgent" -> "URGENT"
    [] OTHER -> p

\* normalizePriority throws
PriorityError(priority) ==
  priority # UNSET /\ ToUpperCase(priority) \notin {"LOW", "MEDIUM", "HIGH"}

TicketInputs ==
  [subject : {<<>>, S_Blank, S_Other, S_BillingIssue},
   content : {<<>>, S_Content},
   contactEmail : {<<>>, S_Blank, S_Email},
   priority : {UNSET, "high", "LOW", "urgent"}]

\* an id as an answer carries it: "" when the body has none
AnswerIds(id) == {"", id}

TicketInit ==
  /\ EmailIdle
  /\ shutdown = FALSE
  /\ FormIdle
  /\ kPc = "start"
  /\ kInput \in TicketInputs
  /\ kToken \in BOOLEAN
  /\ kLookup = "none"
  /\ kContactId = Null
  /\ kTicketId = Null
  /\ kConversation = NoConversation
  /\ kRequests = <<>>
  /\ kFailedAt = "none"
  /\ kResponses = <<>>

\* the catch block of the handler
TicketError(msg) ==
  [isError |-> TRUE, success |-> FALSE, error |-> msg, ticketId |-> Null,
   conversation |-> NoConversation, conversationError |-> Null]

\* the result of the try block; conversationError is left out when it is falsy
TicketSuccess(tid, conv, convError) ==
  [isError |-> FALSE, success |-> TRUE, error |-> "", ticketId |-> tid,
   conversation |-> conv, conversationError |-> IF convError = "" THEN Null ELSE convError]

\* the first failed check of createHubSpotTicket, "" when all pass
TicketValidationError(in) ==
  IF trim(in.subject) = <<>> THEN "Missing required field: subject"
  ELSE IF trim(in.content) = <<>> THEN "Missing required field: content"
  ELSE IF PriorityError(in.priority) THEN "Invalid priority"
  ELSE ""

\* createHubSpotTicket throws and the handler answers
TicketFail(msg, step) ==
  /\ kFailedAt' = step
  /\ kResponses' = Append(kResponses, TicketError(msg))
  /\ kPc' = "done"
  /\ UNCHANGED kRequests

\* createHubSpotTicket returns and the handler answers
TicketReturn(tid, conv) ==
  /\ kResponses' = Append(kResponses, TicketSuccess(tid, conv, ""))
  /\ kPc' = "done"
  /\ UNCHANGED <<kFailedAt, kRequests>>

\* hubspotRequest up to its fetch: assertEnv throws before anything is sent
HubspotRequest(path, nextPc, step) ==
  IF kToken
  THEN /\ kRequests' = Append(kRequests, path)
       /\ kPc' = nextPc
       /\ UNCHANGED <<kFailedAt, kResponses>>
  ELSE TicketFail(TokenMsg, step)

\* variant: the error of createConversationThread is thrown on
ConversationFailed_Rethrown(tid, msg) ==
  /\ kFailedAt' = "conversation"
  /\ kResponses' = Append(kResponses, TicketError(msg))
  /\ kPc' = "done"
  /\ UNCHANGED kRequests

\* the catch around createConversationThread, and the return after it
ConversationFailed(tid, msg) ==
  /\ kFailedAt' = "conversation"
  /\ kResponses' = Append(kResponses, TicketSuccess(tid, NoConversation, msg))
  /\ kPc' = "done"
  /\ UNCHANGED kRequests

\* hubspotRequest inside createConversationThread
ConversationRequest(path, nextPc, tid) ==
  IF kToken
  THEN /\ kRequests' = Append(kRequests, path)
       /\ kPc' = nextPc
       /\ UNCHANGED <<kFailedAt, kResponses>>
  ELSE ConversationFailed(tid, TokenMsg)

\* the handler calls createHubSpotTicket: the checks, then the first request
CreateTicketCall ==
  /\ kPc = "start"
  /\ LET err == TicketValidationError(kInput)
     IN IF err # "" THEN TicketFail(err, "validate")
        ELSE IF trim(kInput.contactEmail) # <<>>
             THEN HubspotRequest(ContactsPath, "awaitCreateContact", "contact")
             ELSE HubspotRequest(TicketsPath, "awaitTicket", "ticket")
  /\ UNCHANGED <<kInput, kToken, kLookup, kContactId, kTicketId, kConversation>>
  /\ UNCHANGED <<emailVars, formVars>>

\* createContact gets its answer; findOrCreateContact returns; the ticket is posted
CreateContactOk ==
  /\ kPc = "awaitCreateContact"
  /\ \E id \in AnswerIds("c1") :
       IF id = ""
       THEN TicketFail(NoContactIdMsg, "contact") /\ UNCHANGED kContactId
       ELSE kContactId' = id /\ HubspotRequest(TicketsPath, "awaitTicket", "ticket")
  /\ UNCHANGED <<kInput, kToken, kLookup, kTicketId, kConversation>>
  /\ UNCHANGED <<emailVars, formVars>>

CreateContactFail ==
  /\ kPc = "awaitCreateContact"
  /\ TicketFail(ApiErrorMsg, "contact")
  /\ UNCHANGED <<kInput, kToken, kLookup, kContactId, kTicketId, kConversation>>
  /\ UNCHANGED <<emailVars, formVars>>

\* the ticket request is answered; with a contact email the conversation is started
PostTicketOk ==
  /\ kPc = "awaitTicket"
  /\ \E id \in AnswerIds("t1") :
       IF id = ""
       THEN TicketFail(NoTicketIdMsg, "ticket") /\ UNCHANGED kTicketId
       ELSE /\ kTicketId' = id
            /\ IF trim(kInput.contactEmail) # <<>>
               THEN ConversationRequest(InboxesPath, "awaitInbox", id)
               ELSE TicketReturn(id, NoConversation)
  /\ UNCHANGED <<kInput, kToken, kLookup, kContactId, kConversation>>
  /\ UNCHANGED <<emailVars, formVars>>

PostTicketFail ==
  /\ kPc = "awaitTicket"
  /\ TicketFail(ApiErrorMsg, "ticket")
  /\ UNCHANGED <<kInput, kToken, kLookup, kContactId, kTicketId, kConversation>>
  /\ UNCHANGED <<emailVars, formVars>>

\* getDefaultInbox gets its answer
GetDefaultInboxOk ==
  /\ kPc = "awaitInbox"
  /\ \E id \in AnswerIds("i1") :
       IF id = ""
       THEN ConversationFailed(kTicketId, "No inbox found in HubSpot account")
       ELSE ConversationRequest(ChannelAccountsPath, "awaitChannelAccount", kTicketId)
  /\ UNCHANGED <<kInput, kToken, kLookup, kContactId, kTicketId, kConversation>>
  /\ UNCHANGED <<emailVars, formVars>>

GetDefaultInboxFail ==
  /\ kPc = "awaitInbox"
  /\ ConversationFailed(kTicketId, ApiErrorMsg)
  /\ UNCHANGED <<kInput, kToken, kLookup, kContactId, kTicketId, kConversation>>
  /\ UNCHANGED <<emailVars, formVars>>

\* getEmailChannelAccount gets its answer
GetEmailChannelAccountOk ==
  /\ kPc = "awaitChannelAccount"
  /\ \E id \in AnswerIds("a1") :
       IF id = ""
       THEN ConversationFailed(kTicketId, "No email channel account found for inbox")
       ELSE ConversationRequest(ThreadsPath, "awaitThread", kTicketId)
  /\ UNCHANGED <<kInput, kToken, kLookup, kContactId, kTicketId, kConversation>>
  /\ UNCHANGED <<emailVars, formVars>>

GetEmailChannelAccountFail ==
  /\ kPc = "awaitChannelAccount"
  /\ ConversationFailed(kTicketId, ApiErrorMsg)
  /\ UNCHANGED <<kInput, kToken, kLookup, kContactId, kTicketId, kConversation>>
  /\ UNCHANGED <<emailVars, formVars>>

\* the thread request is answered
CreateThreadOk ==
  /\ kPc = "awaitThread"
  /\ \E id \in AnswerIds("th1") :
       IF id = ""
       THEN /\ ConversationFailed(kTicketId, "Thread created but no id returned by HubSpot.")
            /\ UNCHANGED kConversation
       ELSE /\ kConversation' = [kConversation EXCEPT !.threadId = id]
            /\ ConversationRequest(MessagesPath, "awaitMessage", kTicketId)
  /\ UNCHANGED <<kInput, kToken, kLookup, kContactId, kTicketId>>
  /\ UNCHANGED <<emailVars, formVars>>

CreateThreadFail ==
  /\ kPc = "awaitThread"
  /\ ConversationFailed(kTicketId, ApiErrorMsg)
  /\ UNCHANGED <<kInput, kToken, kLookup, kContactId, kTicketId, kConversation>>
  /\ UNCHANGED <<emailVars, formVars>>

\* the message request is answered; message?.id may be missing
SendMessageOk ==
  /\ kPc = "awaitMessage"
  /\ \E id \in AnswerIds("m1") :
       LET conv == [kConversation EXCEPT !.messageId = IF id = "" THEN Null ELSE id]
       IN kConversation' = conv /\ TicketReturn(kTicketId, conv)
  /\ UNCHANGED <<kInput, kToken, kLookup, kContactId, kTicketId>>
  /\ UNCHANGED <<emailVars, formVars>>

SendMessageFail ==
  /\ kPc = "awaitMessage"
  /\ ConversationFailed(kTicketId, ApiErrorMsg)
  /\ UNCHANGED <<kInput, kToken, kLookup, kContactId, kTicketId, kConversation>>
  /\ UNCHANGED <<emailVars, formVars>>

NextTicketConversation ==
  \/ CreateTicketCall
  \/ CreateContactOk
  \/ CreateContactFail
  \/ PostTicketOk
  \/ PostTicketFail
  \/ GetDefaultInboxOk
  \/ GetDefaultInboxFail
  \/ GetEmailChannelAccountOk
  \/ GetEmailChannelAccountFail
  \/ CreateThreadOk
  \/ CreateThreadFail
  \/ SendMessageOk
  \/ SendMessageFail

SpecTicketConversation == TicketInit /\ [][NextTicketConversation]_vars

(* ---------------- the ticket server with contact lookup (src/unnamed/part_002) ---------------- *)
\* what a search for the contact can answer: no result, a result without id, a contact
LookupAnswers == {Null, "", "c0"}

\* the handler calls createHubSpotTicket: the checks, then the first request
P2_CreateTicketCall ==
  /\ kPc = "start"
  /\ LET err == TicketValidationError(kInput)
     IN IF err # "" THEN TicketFail(err, "validate")
        ELSE IF trim(kInput.contactEmail) # <<>>
             THEN HubspotRequest(ContactsSearchPath, "awaitFindContact", "contact")
             ELSE HubspotRequest(TicketsPath, "awaitTicket", "ticket")
  /\ UNCHANGED <<kInput, kToken, kLookup, kContactId, kTicketId, kConversation>>
  /\ UNCHANGED <<emailVars, formVars>>

\* variant: the contact is created whatever the search answered
P2_FindContactOk_AlwaysCreate ==
  /\ kPc = "awaitFindContact"
  /\ \E existingId \in LookupAnswers :
       /\ kLookup' = IF existingId \notin {Null, ""} THEN "found" ELSE "absent"
       /\ HubspotRequest(ContactsPath, "awaitCreateContact", "contact")
  /\ UNCHANGED <<kInput, kToken, kContactId, kTicketId, kConversation>>
  /\ UNCHANGED <<emailVars, formVars>>

\* findContactByEmail gets its answer: the contact is used, or one is created
P2_FindContactOk ==
  /\ kPc = "awaitFindContact"
  /\ \E existingId \in LookupAnswers :
       IF existingId \notin {Null, ""}
       THEN /\ kLookup' = "found"
            /\ kContactId' = existingId
            /\ HubspotRequest(TicketsPath, "awaitTicket", "ticket")
       ELSE /\ kLookup' = "absent"
            /\ UNCHANGED kContactId
            /\ HubspotRequest(ContactsPath, "awaitCreateContact", "contact")
  /\ UNCHANGED <<kInput, kToken, kTicketId, kConversation>>
  /\ UNCHANGED <<emailVars, formVars>>

P2_FindContactFail ==
  /\ kPc = "awaitFindContact"
  /\ kLookup' = "failed"
  /\ TicketFail(ApiErrorMsg, "contact")
  /\ UNCHANGED <<kInput, kToken, kContactId, kTicketId, kConversation>>
  /\ UNCHANGED <<emailVars, formVars>>

\* createContact gets its answer; the ticket is posted
P2_CreateContactOk ==
  /\ kPc = "awaitCreateContact"
  /\ \E id \in AnswerIds("c1") :
       IF id = ""
       THEN TicketFail(NoContactIdMsg, "contact") /\ UNCHANGED kContactId
       ELSE kContactId' = id /\ HubspotRequest(TicketsPath, "awaitTicket", "ticket")
  /\ UNCHANGED <<kInput, kToken, kLookup, kTicketId, kConversation>>
  /\ UNCHANGED <<emailVars, formVars>>

P2_CreateContactFail ==
  /\ kPc = "awaitCreateContact"
  /\ TicketFail(ApiErrorMsg, "contact")
  /\ UNCHANGED <<kInput, kToken, kLookup, kContactId, kTicketId, kConversation>>
  /\ UNCHANGED <<emailVars, formVars>>

\* the ticket request is answered and the handler returns it
P2_PostTicketOk ==
  /\ kPc = "awaitTicket"
  /\ \E id \in AnswerIds("t1") :
       IF id = ""
       THEN TicketFail(NoTicketIdMsg, "ticket") /\ UNCHANGED kTicketId
       ELSE kTicketId' = id /\ TicketReturn(id, NoConversation)
  /\ UNCHANGED <<kInput, kToken, kLookup, kContactId, kConversation>>
  /\ UNCHANGED <<emailVars, formVars>>

P2_PostTicketFail ==
  /\ kPc = "awaitTicket"
  /\ TicketFail(ApiErrorMsg, "ticket")
  /\ UNCHANGED <<kInput, kToken, kLookup, kContactId, kTicketId, kConversation>>
  /\ UNCHANGED <<emailVars, formVars>>

NextTicket ==
  \/ P2_CreateTicketCall
  \/ P2_FindContactOk
  \/ P2_FindContactFail
  \/ P2_CreateContactOk
  \/ P2_CreateContactFail
  \/ P2_PostTicketOk
  \/ P2_PostTicketFail

SpecTicket == TicketInit /\ [][NextTicket]_vars

(* ---------------- the form server (src/index.js) ---------------- *)
\* how many arguments of a call differ from a valid call's
MaxDefects == 2

\* an argument of the call: undefined, a boolean, or a string; a string is a
\* sequence of words and white-space characters
FUndef == [t |-> "undef", b |-> FALSE, s |-> <<>>]
FBool(x) == [t |-> "bool", b |-> x, s |-> <<>>]
FStr(x) == [t |-> "str", b |-> FALSE, s |-> x]

SUPPORT_FORM_TICKET_CATEGORY_VALUES ==
  {<<"PRODUCT_ISSUE">>, <<"BILLING_ISSUE">>, <<"FEATURE_REQUEST">>, <<"GENERAL_INQUIRY">>}

SUPPORT_FORM_TICKET_CATEGORY_ALIASES ==
  (<<"Product", " ", "issue">> :> <<"PRODUCT_ISSUE">>) @@
  (<<"Billing", " ", "issue">> :> <<"BILLING_ISSUE">>) @@
  (<<"Feature", " ", "request">> :> <<"FEATURE_REQUEST">>) @@
  (<<"General", " ", "inquiry">> :> <<"GENERAL_INQUIRY">>)

SUPPORT_FORM_TICKET_CATEGORY_INPUTS ==
  SUPPORT_FORM_TICKET_CATEGORY_VALUES \cup DOMAIN SUPPORT_FORM_TICKET_CATEGORY_ALIASES

SUPPORT_FORM_TICKET_EXTENSION_VALUES ==
  {<<"DashboardGuide">>, <<"DashboardUsage">>, <<"DreamTeams">>, <<"DrillDownTree">>,
   <<"EasyDesigns">>, <<"ExtensionsManager">>, <<"hierarchy-filter">>, <<"MailScheduler">>,
   <<"PerformanceInsight">>, <<"PictureThis">>, <<"ProcessMining">>, <<"ScrollyTelling">>,
   <<"ShowMeMore">>, <<"SuperKPIs">>, <<"SuperTables">>, <<"viz-slides">>,
   <<"WriteBackExtreme">>, <<"No", " ", "specific", " ", "extension">>}

SUPPORT_FORM_TICKET_EXTENSION_ALIASES ==
  (<<"PowerKPIs">> :> <<"SuperKPIs">>) @@
  (<<"HierarchyFilter">> :> <<"hierarchy-filter">>) @@
  (<<"VizSlides">> :> <<"viz-slides">>)

SUPPORT_FORM_TICKET_EXTENSION_INPUTS ==
  SUPPORT_FORM_TICKET_EXTENSION_VALUES \cup DOMAIN SUPPORT_FORM_TICKET_EXTENSION_ALIASES

normalizeString(value) ==
  CASE value.t = "undef" -> <<>>
    [] value.t = "bool" -> IF value.b THEN <<"true">> ELSE <<"false">>
    [] OTHER -> trim(value.s)

\* requireValue returns the normalized value, or throws: the value is missing
requireValue(value) == normalizeString(value)
MissingValue(value) == requireValue(value) = <<>>

\* aliases[normalized] || normalized
MappedValue(value, aliases) ==
  LET normalized == requireValue(value)
  IN IF normalized \in DOMAIN aliases THEN aliases[normalized] ELSE normalized

\* requireEnum throws on a value that is there: it is not one of allowed
InvalidEnum(value, allowed, aliases) == MappedValue(value, aliases) \notin allowed

\* variant: any truthy value passes
requireTrue_Truthy(value) ==
  \/ value.t = "bool" /\ value.b
  \/ value.t = "str" /\ value.s # <<>>

\* requireTrue passes
requireTrue(value) == value = FBool(TRUE)

RequiredTextFields ==
  {"firstName", "lastName", "email", "ticketName", "ticketDescription", "extensionVersion"}
ConsentFields == {"consentConfirmationEmails", "consentServiceSupport"}
FormFieldNames ==
  RequiredTextFields \cup ConsentFields \cup {"ticketCategory", "ticketExtension", "consentToProcess"}

\* a call that passes every check
ValidForm ==
  [firstName |-> FStr(<<"x">>), lastName |-> FStr(<<"x">>), email |-> FStr(<<"x">>),
   ticketCategory |-> FStr(<<"BILLING_ISSUE">>), ticketName |-> FStr(<<"x">>),
   ticketDescription |-> FStr(<<"x">>), ticketExtension |-> FStr(<<"SuperKPIs">>),
   extensionVersion |-> FStr(<<"x">>), consentConfirmationEmails |-> FBool(TRUE),
   consentServiceSupport |-> FBool(TRUE), consentToProcess |-> FUndef]

\* the values an argument is given
FieldValues(f) ==
  CASE f \in RequiredTextFields -> {FUndef, FStr(<<>>), FStr(<<" ", "\n">>), FStr(<<" ", "x">>)}
    [] f = "ticketCategory" ->
         {FUndef, FStr(<<"Billing", " ", "issue">>), FStr(<<" ", "GENERAL_INQUIRY", " ">>),
          FStr(<<"billing_issue">>), FStr(<<"Billing">>)}
    [] f = "ticketExtension" ->
         {FStr(<<" ">>), FStr(<<"PowerKPIs">>), FStr(<<"No", " ", "specific", " ", "extension">>),
          FStr(<<"superkpis">>), FStr(<<"Tableau">>)}
    [] f \in ConsentFields -> {FUndef, FBool(FALSE), FStr(<<"true">>)}
    [] OTHER -> {FBool(TRUE), FBool(FALSE), FStr(<<"false">>)}

\* the calls that differ from a valid one in at most k arguments
RECURSIVE FormInputs(_)
FormInputs(k) ==
  IF k = 0 THEN {ValidForm}
  ELSE LET fewer == FormInputs(k - 1)
       IN fewer \cup
          UNION {UNION {{[in EXCEPT ![f] = v] : v \in FieldValues(f)} : f \in FormFieldNames}
                 : in \in fewer}

FormInit ==
  /\ EmailIdle
  /\ shutdown = FALSE
  /\ TicketIdle
  /\ fPc = "start"
  /\ fInput \in FormInputs(MaxDefects)
  /\ fRequests = <<>>
  /\ fFailedAt = "none"
  /\ fResponses = <<>>

\* the first throw of buildSupportTicketFields, "" when it returns
FieldsError(in) ==
  IF MissingValue(in.firstName) THEN "Missing required field: firstName"
  ELSE IF MissingValue(in.lastName) THEN "Missing required field: lastName"
  ELSE IF MissingValue(in.email) THEN "Missing required field: email"
  ELSE IF MissingValue(in.ticketCategory) THEN "Missing required field: ticketCategory"
  ELSE IF InvalidEnum(in.ticketCategory, SUPPORT_FORM_TICKET_CATEGORY_VALUES,
                      SUPPORT_FORM_TICKET_CATEGORY_ALIASES) THEN "Invalid ticketCategory"
  ELSE IF MissingValue(in.ticketName) THEN "Missing required field: ticketName"
  ELSE IF MissingValue(in.ticketDescription) THEN "Missing required field: ticketDescription"
  ELSE IF MissingValue(in.ticketExtension) THEN "Missing required field: ticketExtension"
  ELSE IF InvalidEnum(in.ticketExtension, SUPPORT_FORM_TICKET_EXTENSION_VALUES,
                      SUPPORT_FORM_TICKET_EXTENSION_ALIASES) THEN "Invalid ticketExtension"
  ELSE IF MissingValue(in.extensionVersion) THEN "Missing required field: extensionVersion"
  ELSE ""

\* the first throw of buildSupportTicketConsent, "" when it returns
ConsentError(in) ==
  IF ~requireTrue(in.consentConfirmationEmails)
  THEN "Missing required consent: consentConfirmationEmails"
  ELSE IF ~requireTrue(in.consentServiceSupport)
  THEN "Missing required consent: consentServiceSupport"
  ELSE IF in.consentToProcess.t = "bool" /\ ~requireTrue(in.consentToProcess)
  THEN "Missing required consent: consentToProcess"
  ELSE ""

\* the payload submitHubspotForm posts
FormPayload(in) ==
  [fields |-> <<requireValue(in.firstName), requireValue(in.lastName), requireValue(in.email),
                MappedValue(in.ticketCategory, SUPPORT_FORM_TICKET_CATEGORY_ALIASES),
                requireValue(in.ticketName), requireValue(in.ticketDescription),
                MappedValue(in.ticketExtension, SUPPORT_FORM_TICKET_EXTENSION_ALIASES),
                requireValue(in.extensionVersion)>>,
   consentToProcess |-> TRUE]

FormError(msg) == [isError |-> TRUE, success |-> FALSE, error |-> msg]
FormSuccess == [isError |-> FALSE, success |-> TRUE, error |-> ""]

\* the handler calls submitSupportTicketForm: fields, consent, then the fetch of
\* submitHubspotForm
SubmitSupportTicketFormCall ==
  /\ fPc = "start"
  /\ LET err == IF FieldsError(fInput) # "" THEN FieldsError(fInput) ELSE ConsentError(fInput)
     IN IF err # ""
        THEN /\ fFailedAt' = "validate"
             /\ fResponses' = Append(fResponses, FormError(err))
             /\ fPc' = "done"
             /\ UNCHANGED fRequests
        ELSE /\ fRequests' = Append(fRequests, FormPayload(fInput))
             /\ fPc' = "awaitSubmit"
             /\ UNCHANGED <<fFailedAt, fResponses>>
  /\ UNCHANGED fInput
  /\ UNCHANGED <<emailVars, ticketVars>>

\* response.ok
SubmitOk ==
  /\ fPc = "awaitSubmit"
  /\ fResponses' = Append(fResponses, FormSuccess)
  /\ fPc' = "done"
  /\ UNCHANGED <<fInput, fRequests, fFailedAt>>
  /\ UNCHANGED <<emailVars, ticketVars>>

\* !response.ok
SubmitHttpError ==
  /\ fPc = "awaitSubmit"
  /\ fFailedAt' = "submit"
  /\ fResponses' = Append(fResponses, FormError("HubSpot form submission error"))
  /\ fPc' = "done"
  /\ UNCHANGED <<fInput, fRequests>>
  /\ UNCHANGED <<emailVars, ticketVars>>

\* fetch rejects
SubmitRejected ==
  /\ fPc = "awaitSubmit"
  /\ fFailedAt' = "fetch"
  /\ fResponses' = Append(fResponses, FormError("fetch failed"))
  /\ fPc' = "done"
  /\ UNCHANGED <<fInput, fRequests>>
  /\ UNCHANGED <<emailVars, ticketVars>>

NextForm ==
  \/ SubmitSupportTicketFormCall
  \/ SubmitOk
  \/ SubmitHttpError
  \/ SubmitRejected

SpecForm == FormInit /\ [][NextForm]_vars

(* ---------------- properties ---------------- *)
\* the subject of th contains the hint, compared without case
HintIn(th, hint) ==
  /\ th.subject.isString
  /\ \E k \in 1..Len(th.subject.chars) :
       /\ k + Len(hint) - 1 <= Len(th.subject.chars)
       /\ SubSeq(toLowerCase(th.subject.chars), k, k + Len(hint) - 1) = toLowerCase(hint)

SomeHintIn(ths, hint) == \E i \in DOMAIN ths : HintIn(ths[i], hint)

\* the configured number of attempts, when it is a number
Attempts == pollAttempts.n

\* C1: when no listing query of a call selects a candidate and maxAttempts = N >= 1,
\* the call ends after exactly N queries and N-1 sleeps with the error
\* "Unable to locate HubSpot thread for internal comment", and a call that ends
\* without a selected thread and without another failure ends that way.
C1_ExhaustedAfterNQueries ==
  /\ (pc = "done" /\ failedAt = "locate" /\ ~pollAttempts.nan /\ Attempts >= 1)
       => /\ Len(queries) = Attempts
          /\ sleeps = Attempts - 1
          /\ thrown = UnableMsg
          /\ responses = <<ErrorResult(UnableMsg)>>
  /\ (pc = "done" /\ threadId = Null /\ failedAt \notin {"validate", "send", "list"})
       => failedAt = "locate"

C1_Witness ==
  /\ pc = "done"
  /\ failedAt = "locate"
  /\ ~pollAttempts.nan
  /\ Attempts = 3
  /\ Len(queries) = 3
  /\ sleeps = 2

\* C2: with a subject hint that some thread of the page contains (case ignored), the
\* picked thread is one of the page's subject-matching threads and none of those is
\* more recent, whatever the recency of the others; A/100, B/200 (Billing issue) and
\* C/300 (Other) with the hint BILLING pick B.
C2_MostRecentAmongMatching ==
  /\ (finalSubject # <<>> /\ SomeHintIn(threads, finalSubject))
       => /\ \E i \in DOMAIN threads : threads[i] = thread
          /\ HintIn(thread, finalSubject)
          /\ \A j \in DOMAIN threads :
               HintIn(threads[j], finalSubject) => Recency(threads[j]) <= Recency(thread)
  /\ (threads = <<ThreadA, ThreadB, ThreadC>> /\ finalSubject = trim(S_PaddedBILLING))
       => thread.id = "B"

C2_Witness ==
  /\ threads = <<ThreadA, ThreadB, ThreadC>>
  /\ finalSubject = trim(S_PaddedBILLING)
  /\ thread = ThreadB
  /\ Recency(ThreadC) > Recency(ThreadB)

\* C3: with a subject hint that no thread of a non-empty page contains, a thread is
\* still picked, and it is a most recent thread of the whole page; A, B, C with the
\* hint "None" pick C.
C3_FallbackToWholePage ==
  /\ (finalSubject # <<>> /\ threads # <<>> /\ ~SomeHintIn(threads, finalSubject))
       => /\ \E i \in DOMAIN threads : threads[i] = thread
          /\ \A j \in DOMAIN threads : Recency(threads[j]) <= Recency(thread)
  /\ (threads = <<ThreadA, ThreadB, ThreadC>> /\ finalSubject = S_Nonexistent)
       => thread.id = "C"

C3_Witness ==
  /\ threads = <<ThreadA, ThreadB, ThreadC>>
  /\ finalSubject = S_Nonexistent
  /\ thread = ThreadC
  /\ threadId = "C"

\* C4: once an attempt has selected a thread, no further listing query is issued and
\* no further timer is started; the selecting attempt k has seen exactly k queries
\* and k-1 sleeps, and a successful call returns the selected id.
C4_EarlyExit ==
  /\ [](threadId # Null => (Len(queries) = attempt + 1 /\ sleeps = attempt))
  /\ []((pc = "done" /\ failedAt = "none") => responses = <<SuccessResult(threadId)>>)
  /\ [][threadId # Null => (queries' = queries /\ sleeps' = sleeps)]_vars

C4_Witness ==
  /\ pc = "done"
  /\ failedAt = "none"
  /\ threadId # Null
  /\ ~pollAttempts.nan
  /\ Attempts = 3
  /\ Len(queries) = 2
  /\ sleeps = 1

\* C5: postInternalComment is called at most once, only with a non-null id that is
\* the id of the thread picked from the last listing answer, and never in a call that
\* failed at validation, at the trigger, at a listing query or by exhaustion.
C5_CommentOnlyWhenResolved ==
  /\ Len(comments) <= 1
  /\ comments # <<>>
       => /\ comments[1] # Null
          /\ comments[1] = threadId
          /\ comments[1] = thread.id
          /\ \E i \in DOMAIN threads : threads[i] = thread
          /\ failedAt \in {"none", "comment"}
  /\ failedAt \in {"validate", "send", "list", "locate"} => comments = <<>>

C5_Witness ==
  /\ pc = "awaitComment"
  /\ comments = <<"B">>
  /\ thread = ThreadB
  /\ Len(queries) = 2

C5_WitnessExhausted ==
  /\ pc = "done"
  /\ failedAt = "locate"
  /\ comments = <<>>

\* C6 as stated: a call ends on a failed listing query only when no attempt remains.
C6_Original_RetryWhileAttemptsRemain ==
  (pc = "done" /\ failedAt = "list") => ~LoopContinues(attempt + 1, pollAttempts)

\* C6 (amended): a failed listing query ends the whole call at once, attempts
\* remaining or not: it was a query within the attempt budget, nothing is queried,
\* slept or commented after it, and the caller gets the error.
C6_ListingFailureEndsCall ==
  failedAt = "list"
    => /\ pc = "done"
       /\ Len(queries) = attempt + 1
       /\ sleeps = attempt
       /\ LoopContinues(attempt, pollAttempts)
       /\ comments = <<>>
       /\ responses = <<ErrorResult("HubSpot API error")>>

C6_Witness ==
  /\ pc = "done"
  /\ failedAt = "list"
  /\ attempt = 0
  /\ LoopContinues(attempt + 1, pollAttempts)

\* the configured lookback window
LookbackMs == Setting(env.HUBSPOT_THREAD_LOOKBACK_MS, DefaultLookbackMs).n

\* C7: every listing query of a call carries the limit 20 and the same boundary, the
\* time taken at the trigger minus the lookback window, however late it is issued.
C7_FixedLookbackBoundary ==
  /\ sendMailCalls > 0 => emailSentAt = StartTime
  /\ \A i \in DOMAIN queries :
       /\ queries[i].limit = 20
       /\ queries[i].latestMessageTimestampAfter = Finite(StartTime - LookbackMs)

C7_Witness ==
  /\ Len(queries) = 3
  /\ sleeps = 2
  /\ now > StartTime + 2
  /\ queries[3].latestMessageTimestampAfter = Finite(StartTime - 2)

\* C8: transporter.sendMail is called at most once, every listing query comes after
\* a sendMail that succeeded, and a call whose sendMail failed has ended with that
\* error without a listing query, a sleep or a comment.
C8_TriggerOnceAndFirst ==
  /\ sendMailCalls <= 1
  /\ queries # <<>> => (sendMailCalls = 1 /\ failedAt # "send")
  /\ failedAt = "send"
       => /\ pc = "done"
          /\ sendMailCalls = 1
          /\ queries = <<>>
          /\ sleeps = 0
          /\ comments = <<>>
          /\ responses = <<ErrorResult("SMTP error")>>

C8_Witness ==
  /\ pc = "done"
  /\ failedAt = "send"
  /\ sendMailCalls = 1

\* C9: a call returns nothing before it is done and exactly one result when done:
\* the success result with the resolved id when nothing threw, otherwise the error
\* result (isError true, success false) carrying the message of what threw.
C9_OneTerminalOutcome ==
  /\ Len(responses) = (IF pc = "done" THEN 1 ELSE 0)
  /\ pc = "done"
       => LET r == responses[1]
          IN /\ r.isError = ~r.success
             /\ r.success <=> failedAt = "none"
             /\ r.success => (r.hubspotThreadId = threadId /\ threadId # Null /\ thrown = "")
             /\ r.isError => (r.error = thrown /\ thrown # "" /\ r.hubspotThreadId = Null)
  /\ failedAt # "none" => pc = "done"

C9_Witness ==
  /\ pc = "done"
  /\ failedAt = "locate"
  /\ responses[1].isError
  /\ responses[1].error = UnableMsg

C9_WitnessResolved ==
  /\ pc = "done"
  /\ responses = <<SuccessResult("C")>>

\* C19 as stated: a call sleeping between two attempts is released when the host
\* shuts down; it does not wait for its timer and go on to the next listing query.
C19_Original_SleepReleasedOnShutdown ==
  [][(shutdown /\ pc = "sleeping") => queries' = queries]_vars

\* the state C19 is about: the host has shut down and the call is still sleeping
C19_ShutdownWhileSleeping ==
  /\ shutdown
  /\ pc = "sleeping"

\* C21: when the thread picked from an answer has no id (missing or empty),
\* findThreadIdByInbox returns null, no comment is posted for it and the loop goes on
\* (sleeping while attempts remain, else failing with the "Unable to locate" error),
\* and no success result ever carries an empty or null hubspotThreadId.
C21_ResolvedIdNeverEmpty ==
  /\ (results # <<>> /\ thread.id = "")
       => /\ threadId = Null
          /\ comments = <<>>
          /\ pc \in {"sleeping", "done"}
          /\ pc = "sleeping" => sleeps = attempt + 1
          /\ pc = "done" => failedAt = "locate"
  /\ \A i \in DOMAIN responses :
       responses[i].success => responses[i].hubspotThreadId \notin {"", Null}
  /\ \A i \in DOMAIN comments : comments[i] \notin {"", Null}

C21_Witness ==
  /\ thread = ThreadD
  /\ results = <<ThreadA, ThreadD>>
  /\ threadId = Null
  /\ pc = "sleeping"

\* the input or the environment fails one of sendEmail's checks
InvalidCall ==
  \/ trim(input.content) = <<>>
  \/ trim(input.contactEmail) = <<>>
  \/ ~env.HUBSPOT_BCC_EMAIL
  \/ ~env.HUBSPOT_INBOX_ID
  \/ ~env.HUBSPOT_ACCESS_TOKEN

\* C22: a call whose content or contactEmail is empty after trimming, or whose
\* HUBSPOT_BCC_EMAIL, HUBSPOT_INBOX_ID or HUBSPOT_ACCESS_TOKEN is not set, never
\* sends the mail, never queries the listing and never posts a comment; it ends
\* with an error result, and only such calls fail at validation.
C22_ValidatesBeforeActing ==
  /\ InvalidCall
       => /\ sendMailCalls = 0
          /\ queries = <<>>
          /\ sleeps = 0
          /\ comments = <<>>
          /\ pc \in {"start", "done"}
          /\ pc = "done" => (failedAt = "validate" /\ responses[1].isError)
  /\ failedAt = "validate" => InvalidCall

C22_Witness ==
  /\ pc = "done"
  /\ failedAt = "validate"
  /\ input.content = S_Blank
  /\ input.contactEmail = S_Email
  /\ sendMailCalls = 0

C22_WitnessNoToken ==
  /\ pc = "done"
  /\ failedAt = "validate"
  /\ ~env.HUBSPOT_ACCESS_TOKEN
  /\ thrown = "HUBSPOT_ACCESS_TOKEN not configured"

\* the configured HUBSPOT_THREAD_POLL_ATTEMPTS as sendEmail reads it
ConfiguredAttempts == Setting(env.HUBSPOT_THREAD_POLL_ATTEMPTS, DefaultPollAttempts)
NoAttempts == ConfiguredAttempts.nan \/ ConfiguredAttempts.n <= 0
MailWasSent == pc \notin {"start", "awaitSend"} /\ failedAt \notin {"validate", "send"}

\* C23: a call never issues more listing queries than the configured pollAttempts
\* and, every request being answered, it ends; with pollAttempts 0, negative or not
\* a number it issues no query at all and fails with the "Unable to locate" error
\* after the mail has been sent.
C23_BoundedPolling ==
  /\ [](Len(queries) <= (IF NoAttempts THEN 0 ELSE ConfiguredAttempts.n))
  /\ []((MailWasSent /\ NoAttempts)
          => /\ pc = "done"
             /\ queries = <<>>
             /\ sleeps = 0
             /\ sendMailCalls = 1
             /\ responses = <<ErrorResult(UnableMsg)>>)
  /\ <>(pc = "done")

C23_Witness ==
  /\ pc = "done"
  /\ env.HUBSPOT_THREAD_POLL_ATTEMPTS = "many"
  /\ pollAttempts.nan
  /\ sendMailCalls = 1
  /\ queries = <<>>
  /\ thrown = UnableMsg

C23_WitnessBound ==
  /\ pc = "done"
  /\ env.HUBSPOT_THREAD_POLL_ATTEMPTS = "2"
  /\ Len(queries) = 2

\* C24: when postInternalComment fails after a thread id was resolved, the call
\* ends with the error result, which carries no thread id; the mail was sent once
\* and is not sent again, and the comment is not posted again.
C24_CommentFailureFailsCall ==
  failedAt = "comment"
    => /\ pc = "done"
       /\ threadId \notin {"", Null}
       /\ responses = <<ErrorResult("HubSpot API error")>>
       /\ responses[1].hubspotThreadId = Null
       /\ sendMailCalls = 1
       /\ Len(comments) = 1

C24_Witness ==
  /\ pc = "done"
  /\ failedAt = "comment"
  /\ threadId = "B"
  /\ sendMailCalls = 1

\* the positions of the threads that are ranked: the subject matches if any, else all
RankedPositions ==
  IF finalSubject # <<>> /\ SomeHintIn(results, finalSubject)
  THEN {i \in DOMAIN results : HintIn(results[i], finalSubject)}
  ELSE DOMAIN results

\* C25: of the ranked threads that share the maximum recency, the one that comes
\* first in the order the endpoint returned is picked, and the array the endpoint
\* returned is in the same order after the pick as before.
C25_FirstOfTheMostRecent ==
  /\ threads = results
  /\ results # <<>>
       => \E i \in RankedPositions :
            /\ thread = results[i]
            /\ \A j \in RankedPositions :
                 /\ Recency(results[j]) <= Recency(results[i])
                 /\ Recency(results[j]) = Recency(results[i]) => i <= j

C25_Witness ==
  /\ results = <<ThreadC, ThreadD>>
  /\ finalSubject = S_Nonexistent
  /\ Recency(ThreadC) = Recency(ThreadD)
  /\ thread = ThreadC
  /\ threadId = "C"

\* the timestamps the threads of the catalog rank with
ExpectedTimestamp(th) ==
  CASE th = ThreadA -> 100
    [] th = ThreadB -> 200
    [] th = ThreadC -> 300
    [] th = ThreadD -> 300
    [] th = ThreadE -> 0
    [] OTHER -> 0

\* the first truthy of latestMessageTimestamp, updatedAt, createdAt
FirstTruthy(th) ==
  IF Truthy(th.latestMessageTimestamp) THEN th.latestMessageTimestamp
  ELSE IF Truthy(th.updatedAt) THEN th.updatedAt
  ELSE th.createdAt

\* missing, 0 or a string that is neither a numeral nor a date
RanksAsZero(v) ==
  \/ v.t = "undef"
  \/ v.t = "num" /\ v.n = 0
  \/ v.t = "str" /\ v.s \notin {"100", "1970-01-01T00:00:00.200Z", "1970-01-01T00:00:00.300Z"}

\* C26: the picked thread is a ranked thread whose first truthy timestamp field,
\* as a number, is the largest; a field value that is missing, 0 or unparsable
\* counts as 0, so such a thread is picked only when no ranked thread has a
\* positive timestamp.
C26_RecencyOfFirstTruthyField ==
  results # <<>>
    => /\ \A j \in RankedPositions : ExpectedTimestamp(results[j]) <= ExpectedTimestamp(thread)
       /\ \E i \in RankedPositions : results[i] = thread
       /\ \A j \in DOMAIN results :
            RanksAsZero(FirstTruthy(results[j])) <=> ExpectedTimestamp(results[j]) = 0
       /\ RanksAsZero(FirstTruthy(thread))
            => \A j \in RankedPositions : ExpectedTimestamp(results[j]) <= 0

C26_Witness ==
  /\ results = <<ThreadE>>
  /\ thread = ThreadE
  /\ FirstTruthy(ThreadE) = Str("soon")
  /\ threadId = "E"

C26_WitnessLaterField ==
  /\ results = <<ThreadE, ThreadD, ThreadA>>
  /\ finalSubject = trim(S_PaddedBILLING)
  /\ thread = ThreadD

\* the positions of the requests of a call that went to one of the paths
RequestsTo(paths) == {i \in DOMAIN kRequests : kRequests[i] \in paths}

\* C27: when the conversation thread or its first message cannot be created,
\* the call still ends with a success result that carries the id of the ticket
\* and a conversationError and no conversation; a request of the conversation is
\* sent only after the ticket request, once the ticket has an id, and only for a
\* call with a contact email.
C27_ConversationFailureKeepsTicket ==
  /\ kFailedAt = "conversation"
       => /\ kPc = "done"
          /\ Len(kResponses) = 1
          /\ kResponses[1].success /\ ~kResponses[1].isError
          /\ kResponses[1].ticketId = "t1"
          /\ kResponses[1].conversationError \notin {Null, ""}
          /\ kResponses[1].conversation = NoConversation
  /\ \A j \in RequestsTo(ConversationPaths) :
       /\ kTicketId \notin {Null, ""}
       /\ trim(kInput.contactEmail) # <<>>
       /\ \E i \in RequestsTo({TicketsPath}) : i < j
  /\ (kPc = "done" /\ kFailedAt \in {"validate", "contact", "ticket"})
       => (kResponses[1].isError /\ RequestsTo(ConversationPaths) = {})

C27_Witness ==
  /\ kPc = "done"
  /\ kFailedAt = "conversation"
  /\ kRequests = <<ContactsPath, TicketsPath, InboxesPath, ChannelAccountsPath, ThreadsPath,
                   MessagesPath>>
  /\ kResponses[1].success
  /\ kResponses[1].conversationError = ApiErrorMsg

C27_WitnessNoEmail ==
  /\ kPc = "done"
  /\ trim(kInput.contactEmail) = <<>>
  /\ kRequests = <<TicketsPath>>
  /\ kResponses[1].success

\* C28: the create-contact request is sent only after a search that found no
\* contact; the ticket request of a call with a contact email is sent only once
\* the search or the creation has given a contact id, and a call without a
\* contact email sends the ticket request alone; when the search or the creation
\* fails the call ends in an error without a ticket request.
C28_ContactBeforeTicket ==
  /\ \A j \in RequestsTo({ContactsPath}) :
       /\ kLookup = "absent"
       /\ \E i \in RequestsTo({ContactsSearchPath}) : i < j
  /\ \A j \in RequestsTo({TicketsPath}) :
       IF trim(kInput.contactEmail) = <<>>
       THEN kRequests = <<TicketsPath>>
       ELSE /\ kContactId \in {"c0", "c1"}
            /\ kLookup = "found" <=> kContactId = "c0"
            /\ \E i \in RequestsTo({ContactsSearchPath}) : i < j
            /\ kLookup = "absent" => \E i \in RequestsTo({ContactsPath}) : i < j
  /\ (kLookup = "failed" \/ kFailedAt = "contact")
       => /\ kPc = "done"
          /\ RequestsTo({TicketsPath}) = {}
          /\ kTicketId = Null
          /\ kResponses[1].isError

C28_Witness ==
  /\ kPc = "done"
  /\ kLookup = "absent"
  /\ kRequests = <<ContactsSearchPath, ContactsPath, TicketsPath>>
  /\ kContactId = "c1"
  /\ kResponses[1].success

C28_WitnessFound ==
  /\ kPc = "done"
  /\ kLookup = "found"
  /\ kRequests = <<ContactsSearchPath, TicketsPath>>
  /\ kResponses[1].success

C28_WitnessCreationFails ==
  /\ kPc = "done"
  /\ kFailedAt = "contact"
  /\ kRequests = <<ContactsSearchPath, ContactsPath>>

\* undefined, or a string of white space only
EmptyArgument(v) ==
  \/ v.t = "undef"
  \/ v.t = "str" /\ \A i \in DOMAIN v.s : v.s[i] \in {" ", "\n"}

\* not one of the values and aliases of the list, white space around it aside
OutsideInputs(v, inputs) == v.t # "str" \/ trim(v.s) \notin inputs

\* the call is invalid
InvalidForm ==
  \/ \E f \in RequiredTextFields \cup {"ticketCategory", "ticketExtension"} :
       EmptyArgument(fInput[f])
  \/ OutsideInputs(fInput.ticketCategory, SUPPORT_FORM_TICKET_CATEGORY_INPUTS)
  \/ OutsideInputs(fInput.ticketExtension, SUPPORT_FORM_TICKET_EXTENSION_INPUTS)
  \/ fInput.consentConfirmationEmails # FBool(TRUE)
  \/ fInput.consentServiceSupport # FBool(TRUE)
  \/ fInput.consentToProcess = FBool(FALSE)

\* C29: a submit_support_ticket_form call with an empty required field, a
\* ticketCategory or ticketExtension that is none of the allowed values and
\* aliases, a consentConfirmationEmails or consentServiceSupport other than the
\* boolean true, or consentToProcess false, sends no request and ends in an
\* error; every other call of the model sends its one submission.
C29_InvalidFormSendsNothing ==
  /\ InvalidForm
       => /\ fRequests = <<>>
          /\ fPc \in {"start", "done"}
          /\ fPc = "done" => (fResponses = <<fResponses[1]>> /\ fResponses[1].isError)
  /\ (~InvalidForm /\ fPc # "start") => Len(fRequests) = 1

C29_Witness ==
  /\ fPc = "done"
  /\ fInput.consentServiceSupport = FStr(<<"true">>)
  /\ fInput.ticketCategory = FStr(<<"Billing", " ", "issue">>)
  /\ fRequests = <<>>
  /\ fResponses[1].error = "Missing required consent: consentServiceSupport"

C29_WitnessEnum ==
  /\ fPc = "done"
  /\ fInput.ticketExtension = FStr(<<"superkpis">>)
  /\ fResponses[1].error = "Invalid ticketExtension"

C29_WitnessConsentToProcess ==
  /\ fPc = "done"
  /\ fInput.consentToProcess = FBool(FALSE)
  /\ fResponses[1].error = "Missing required consent: consentToProcess"

C29_WitnessSent ==
  /\ fPc = "done"
  /\ fInput.consentToProcess = FStr(<<"false">>)
  /\ fInput.ticketExtension = FStr(<<"PowerKPIs">>)
  /\ fRequests[1].fields[7] = <<"SuperKPIs">>
  /\ fResponses[1].success

====
